---------------------------- MODULE Spec2Model ----------------------------
(***************************************************************************)
(* The pagination / deduplication loop of src/andre2.py:                   *)
(* iterative_search_pipeline (lines 152-182) driving search_pipeline       *)
(* (lines 43-150).  One run of the loop is one behaviour; the remote       *)
(* service is the environment and chooses every reply.                     *)
(***************************************************************************)
EXTENDS Integers, Sequences, FiniteSets, TLC

(***************************************************************************)
(* Bounds of the model.                                                    *)
(***************************************************************************)
\* largest max_rows (target_count) a run is started with
MaxRows == 3
\* longest JSON array a reply carries (may exceed the number of rows asked for)
MaxBatchLen == 3
\* requests explored per run; the loop itself has no such limit
CycleCap == 3
\* The design's "configured maximum cycle count" and "configured maximum batch
\* size".  andre2.py has neither parameter: the values stand for any setting a
\* caller could have configured.
max_cycles == 2
configured_max_batch == 2

(***************************************************************************)
(* JSON values as the loop sees them.                                      *)
(***************************************************************************)
\* dict.get(k) of a key the object does not carry
NoneVal == "<None>"
\* marks a key that the JSON object omits
Absent == "<absent>"

Obj(b, info) ==
    [kind |-> "obj", Indikation |-> "a", Wirkstoff |-> "x",
     Brandname |-> b, info |-> info]
\* an array element that is not an object (a number, a string, a nested array)
NonObj ==
    [kind |-> "nonobj", Indikation |-> Absent, Wirkstoff |-> Absent,
     Brandname |-> Absent, info |-> Absent]

o1 == Obj("p", "r")
\* same identity key as o1, another value in a non-key column
o1b == Obj("p", "s")
o2 == Obj("P", "r")
o3 == Obj("", "r")
\* an object that omits the Brandname key
o4 == Obj(Absent, "r")

Objects == {o1, o1b, o2, o3, o4}
Entries == Objects \cup {NonObj}

\* What robust_extract_json can hand back: None, a list, a single object, a
\* scalar.  A list is kept as its length: the for loop of lines 170-173 reads
\* its elements once each, in order, so an element is drawn when the loop
\* reaches it.
JsonNone == [tag |-> "None", len |-> 0]
JsonList(n) == [tag |-> "list", len |-> n]
JsonDict == [tag |-> "dict", len |-> 1]
JsonScalar == [tag |-> "scalar", len |-> 0]

Payloads == {JsonNone, JsonDict, JsonScalar} \cup {JsonList(n) : n \in 0..MaxBatchLen}

\* what had been read when the stream broke: nothing usable, or one row
PartialPayloads == {JsonNone, JsonList(1)}

\* one exchange with the service: how the transport went and what
\* robust_extract_json recovers from the text read from the stream
Replies ==
    {[transport |-> "request_error", payload |-> JsonNone]}
    \cup {[transport |-> "stream_error", payload |-> p] : p \in PartialPayloads}
    \cup {[transport |-> "ok", payload |-> p] : p \in Payloads}

Min(a, b) == IF a < b THEN a ELSE b

VARIABLES
    pc,                 \* position in iterative_search_pipeline
    max_rows,           \* the argument: the target row count
    aggregated_results, \* the accumulated list
    offset,
    remaining_rows,
    result,             \* what search_pipeline returned in this cycle
    idx,                \* position of the for loop in result
    returned,           \* the value handed to the caller
    calls,              \* history: one record per search_pipeline call
    before,             \* history: aggregated_results when the last call was made
    firsts,             \* history: the objects read from the replies, each key once
    sleeps,             \* history: how many time.sleep(1) calls have returned
    response_text,      \* the text of a reply: the argument of robust_extract_json,
                        \* or the body search_pipeline streams
    parts,              \* history: the fragments response_text is made of
    extracted           \* which robust_extract_json ran, the text it searched
                        \* and what it returned

loopvars == <<pc, max_rows, aggregated_results, offset, remaining_rows, result, idx,
              returned, calls, before, firsts, sleeps>>
textvars == <<response_text, parts, extracted>>
vars == <<loopvars, textvars>>

\* no robust_extract_json has run
NotExtracted ==
    [by |-> "none", searched |-> <<>>, res |-> [ok |-> FALSE, value |-> <<>>]]


(***************************************************************************)
(* The pieces of the loop body.                                            *)
(***************************************************************************)
\* entry.get(k): None for a key the object does not carry (line 171)
Get(entry, k) == IF entry[k] = Absent THEN NoneVal ELSE entry[k]

\* line 171: the identity key of an entry
KeyOf(entry) ==
    <<Get(entry, "Indikation"), Get(entry, "Wirkstoff"), Get(entry, "Brandname")>>

\* a slip in line 172: only the row appended last is compared
IsNewLastOnly(key, agg) == agg = <<>> \/ KeyOf(agg[Len(agg)]) # key

\* line 172: no row collected so far carries this key
IsNew(key, agg) == ~ \E i \in 1..Len(agg) : KeyOf(agg[i]) = key

\* a slip in line 173: insert(0, entry) instead of append
MergeEntryPrepend(agg, entry) ==
    IF ~ \E i \in 1..Len(agg) : KeyOf(agg[i]) = KeyOf(entry)
    THEN <<entry>> \o agg
    ELSE agg

\* a slip in lines 172-173: the entry is appended without the key test
MergeEntryAlways(agg, entry) == Append(agg, entry)

\* a slip in line 173: a row with the same Indikation and Wirkstoff is
\* replaced by the new entry instead of being left alone
MergeEntryUpsert(agg, entry) ==
    IF ~ \E i \in 1..Len(agg) : KeyOf(agg[i]) = KeyOf(entry)
    THEN IF \E i \in 1..Len(agg) : Get(agg[i], "Wirkstoff") = Get(entry, "Wirkstoff")
         THEN [agg EXCEPT ![Len(agg)] = entry]
         ELSE Append(agg, entry)
    ELSE agg

\* lines 171-173: one pass of the for loop over an object
MergeEntry(agg, entry) ==
    IF IsNew(KeyOf(entry), agg) THEN Append(agg, entry) ELSE agg

\* a slip in lines 143-145: the handler of a streaming error does not return,
\* so the text read so far goes on to robust_extract_json
search_pipeline_no_return(reply) ==
    IF reply.transport = "request_error" THEN [tag |-> "None", len |-> 0]
    ELSE reply.payload

\* lines 123-150: search_pipeline returns None on a request error and on an
\* error while streaming, and otherwise whatever robust_extract_json recovers
search_pipeline(reply) ==
    IF reply.transport = "request_error" THEN JsonNone
    ELSE IF reply.transport = "stream_error" THEN JsonNone
    ELSE reply.payload

\* a slip in lines 163-165: continue instead of break, the cycle is retried
AfterResultRetry(res) ==
    IF res.tag = "None" THEN "while"
    ELSE IF res.tag # "list" THEN "return"
    ELSE "merge"

\* a slip in lines 163-165: the failed cycle is skipped and the loop goes on
AfterResultSkipCycle(res) ==
    IF res.tag = "None" THEN "sleep"
    ELSE IF res.tag # "list" THEN "return"
    ELSE "merge"

\* a change of lines 166-168: a single object goes through the for loop as a
\* batch of one
AfterResultObjectAsBatch(res) ==
    IF res.tag = "None" THEN "return"
    ELSE IF res.tag = "scalar" THEN "return"
    ELSE "merge"

\* lines 163-168: both breaks leave the loop, a list goes on to the for loop
AfterResult(res) ==
    IF res.tag = "None" THEN "return"
    ELSE IF res.tag # "list" THEN "return"
    ELSE "merge"

\* a slip in line 160: every request asks for the whole target
RemainingRowsWholeTarget(target, agg) == target

\* a slip in line 160: one row more than is missing is asked for
RemainingRowsOneMore(target, agg) == target - Len(agg) + 1

\* line 160
RemainingRows(target, agg) == target - Len(agg)

\* len(result) of a list
ListLen(res) == res.len

\* a slip in line 175: offset = len(result)
NextOffsetAssigned(off, res) == res.len

\* a slip in line 175: the offset moves by the rows accepted, not received
NextOffsetAccepted(off, res) == off + (Len(aggregated_results) - Len(before))

\* line 175: offset += len(result)
NextOffset(off, res) == off + ListLen(res)

\* a slip in line 177: <= instead of <, a full batch ends the search too
ShortBatchInclusive(res, remaining) == ListLen(res) <= remaining

\* line 177: fewer rows than requested ends the search
ShortBatch(res, remaining) == ListLen(res) < remaining

\* a slip in line 182: the list is returned unsliced
TruncateNot(agg, target) == agg

\* line 182: aggregated_results[:max_rows], for max_rows >= 0
Truncate(agg, target) == SubSeq(agg, 1, Min(Len(agg), target))

\* the three key columns of an object as they arrived
ArrivalKey(entry) == <<entry.Indikation, entry.Wirkstoff, entry.Brandname>>

\* history: an object joins firsts when no earlier arrival had its key columns
NoteArrival(seen, entry) ==
    IF \E i \in 1..Len(seen) : ArrivalKey(seen[i]) = ArrivalKey(entry)
    THEN seen
    ELSE Append(seen, entry)

\* line 182: the return value is the list alone; it carries no count of
\* failed cycles
FailureCountsReturned == {}

\* how a call ended, for the history
Outcome(reply) ==
    IF reply.transport # "ok" THEN reply.transport
    ELSE IF reply.payload.tag = "None" THEN "no_json"
    ELSE IF reply.payload.tag = "list" THEN "list"
    ELSE "not_list"

(***************************************************************************)
(* The run.                                                                *)
(***************************************************************************)
Init ==
    /\ pc = "while"
    /\ max_rows \in 0..MaxRows
    /\ aggregated_results = <<>>
    /\ offset = 0
    /\ remaining_rows = 0
    /\ result = JsonNone
    /\ idx = 1
    /\ returned = <<>>
    /\ calls = <<>>
    /\ before = <<>>
    /\ firsts = <<>>
    /\ sleeps = 0
    /\ response_text = <<>>
    /\ parts = <<>>
    /\ extracted = NotExtracted

\* a slip in line 159: <= instead of <
NeedMoreRowsInclusive(agg, target) == Len(agg) <= target

\* line 159: the loop condition
NeedMoreRows(agg, target) == Len(agg) < target

\* lines 159-161: the loop test and the rows still missing
WhileTest ==
    /\ pc = "while"
    /\ IF NeedMoreRows(aggregated_results, max_rows)
       THEN /\ remaining_rows' = RemainingRows(max_rows, aggregated_results)
            /\ pc' = "request"
       ELSE /\ pc' = "return"
            /\ UNCHANGED remaining_rows
    /\ UNCHANGED <<max_rows, aggregated_results, offset, result, idx, returned,
                   calls, before>>
    /\ UNCHANGED firsts
    /\ UNCHANGED textvars
    /\ UNCHANGED sleeps

\* lines 162-168: the call of search_pipeline and the two checks of its result
Request ==
    /\ pc = "request"
    /\ Len(calls) < CycleCap
    /\ \E reply \in Replies :
          /\ result' = search_pipeline(reply)
          /\ calls' = Append(calls,
                [num_rows |-> remaining_rows, offset |-> offset,
                 have |-> Len(aggregated_results),
                 got |-> IF Outcome(reply) = "list" THEN reply.payload.len ELSE 0,
                 outcome |-> Outcome(reply)])
          /\ pc' = AfterResult(search_pipeline(reply))
    /\ before' = aggregated_results
    /\ idx' = 1
    /\ UNCHANGED <<max_rows, aggregated_results, offset, remaining_rows, returned>>
    /\ UNCHANGED firsts
    /\ UNCHANGED textvars
    /\ UNCHANGED sleeps

\* lines 170-173: one entry of the for loop; entry.get of an element that is
\* not an object raises AttributeError, which nothing in the run catches
MergeStep ==
    /\ pc = "merge"
    /\ idx <= ListLen(result)
    /\ \E entry \in Entries :
          IF entry.kind = "obj"
          THEN /\ aggregated_results' = MergeEntry(aggregated_results, entry)
               /\ idx' = idx + 1
               /\ pc' = "merge"
               /\ firsts' = NoteArrival(firsts, entry)
          ELSE /\ pc' = "raised"
               /\ UNCHANGED <<aggregated_results, idx, firsts>>
    /\ UNCHANGED <<max_rows, offset, remaining_rows, result, returned, calls, before>>
    /\ UNCHANGED textvars
    /\ UNCHANGED sleeps

\* the loop going round without line 180
AfterBatchNoDelay(res, remaining) ==
    IF ShortBatch(res, remaining) THEN "return" ELSE "while"

\* lines 177-180: a short batch ends the search, any other is followed by
\* time.sleep(1)
AfterBatch(res, remaining) ==
    IF ShortBatch(res, remaining) THEN "return" ELSE "sleep"

\* lines 175-179: the offset moves on, a short batch ends the search
Advance ==
    /\ pc = "merge"
    /\ idx > ListLen(result)
    /\ offset' = NextOffset(offset, result)
    /\ pc' = AfterBatch(result, remaining_rows)
    /\ UNCHANGED <<max_rows, aggregated_results, remaining_rows, result, idx,
                   returned, calls, before>>
    /\ UNCHANGED firsts
    /\ UNCHANGED textvars
    /\ UNCHANGED sleeps

\* line 180: time.sleep(1), then back to the loop test
Sleep ==
    /\ pc = "sleep"
    /\ pc' = "while"
    /\ sleeps' = sleeps + 1
    /\ UNCHANGED <<max_rows, aggregated_results, offset, remaining_rows, result,
                   idx, returned, calls, before>>
    /\ UNCHANGED firsts
    /\ UNCHANGED textvars

\* line 182
Return ==
    /\ pc = "return"
    /\ returned' = Truncate(aggregated_results, max_rows)
    /\ pc' = "done"
    /\ UNCHANGED <<max_rows, aggregated_results, offset, remaining_rows, result,
                   idx, calls, before>>
    /\ UNCHANGED firsts
    /\ UNCHANGED textvars
    /\ UNCHANGED sleeps

Next == WhileTest \/ Request \/ MergeStep \/ Advance \/ Sleep \/ Return

Spec == Init /\ [][Next]_vars

(***************************************************************************)
(* robust_extract_json.  A text is a sequence of tokens: "[" "]" "{" "}"   *)
(* "," as written, "n" a scalar literal, "k" a member name with its colon, *)
(* "w" a word of commentary, "f" a ``` fence, "json" the word json, "nl" a *)
(* newline, "think" the marker <think>, "null" the literal null.  A parsed *)
(* JSON value is the token sequence of the value without its whitespace.   *)
(***************************************************************************)
\* str.find of one token from position from on; 0 when there is none
RECURSIVE IndexOfFirst(_, _, _)
IndexOfFirst(t, tok, from) ==
    IF from > Len(t) THEN 0
    ELSE IF t[from] = tok THEN from
    ELSE IndexOfFirst(t, tok, from + 1)

\* str.rfind of one token; 0 when there is none
RECURSIVE IndexOfLastUpTo(_, _, _)
IndexOfLastUpTo(t, tok, upto) ==
    IF upto < 1 THEN 0
    ELSE IF t[upto] = tok THEN upto
    ELSE IndexOfLastUpTo(t, tok, upto - 1)
IndexOfLast(t, tok) == IndexOfLastUpTo(t, tok, Len(t))

\* str.strip, and the \s* on both sides of the group of the fence pattern
RECURSIVE StripLeft(_)
StripLeft(t) == IF t # <<>> /\ Head(t) = "nl" THEN StripLeft(Tail(t)) ELSE t
RECURSIVE StripRight(_)
StripRight(t) ==
    IF t # <<>> /\ t[Len(t)] = "nl" THEN StripRight(SubSeq(t, 1, Len(t) - 1)) ELSE t
Strip(t) == StripLeft(StripRight(t))

\* str.splitlines
RECURSIVE SplitLines(_)
SplitLines(t) ==
    IF t = <<>> THEN <<>>
    ELSE LET i == IndexOfFirst(t, "nl", 1)
         IN  IF i = 0 THEN <<t>>
             ELSE <<SubSeq(t, 1, i - 1)>> \o SplitLines(SubSeq(t, i + 1, Len(t)))

\* "\n".join
RECURSIVE JoinLines(_)
JoinLines(lines) ==
    IF lines = <<>> THEN <<>>
    ELSE IF Len(lines) = 1 THEN lines[1]
    ELSE lines[1] \o <<"nl">> \o JoinLines(Tail(lines))

\* andre2.py line 19: not line.strip().startswith("<think>")
KeepLine(line) == ~(line # <<>> /\ line[1] = "think")

\* lines 18-20 with a .strip() of the joined text that the code does not have
cleaned_text_trimmed(t) == Strip(JoinLines(SelectSeq(SplitLines(t), KeepLine)))

\* andre2.py lines 18-20
cleaned_text(t) == JoinLines(SelectSeq(SplitLines(t), KeepLine))

\* the JSON grammar: the position after the value that starts at i, 0 when
\* no value starts there
RECURSIVE ParseValue(_, _)
RECURSIVE ParseElements(_, _)
RECURSIVE ParseMembers(_, _)
ParseValue(t, i) ==
    IF i > Len(t) THEN 0
    ELSE IF t[i] \in {"n", "null"} THEN i + 1
    ELSE IF t[i] = "[" THEN
        IF i + 1 <= Len(t) /\ t[i + 1] = "]" THEN i + 2 ELSE ParseElements(t, i + 1)
    ELSE IF t[i] = "{" THEN
        IF i + 1 <= Len(t) /\ t[i + 1] = "}" THEN i + 2 ELSE ParseMembers(t, i + 1)
    ELSE 0
ParseElements(t, i) ==
    LET j == ParseValue(t, i)
    IN  IF j = 0 \/ j > Len(t) THEN 0
        ELSE IF t[j] = "," THEN ParseElements(t, j + 1)
        ELSE IF t[j] = "]" THEN j + 1
        ELSE 0
ParseMembers(t, i) ==
    IF i > Len(t) \/ t[i] # "k" THEN 0
    ELSE LET j == ParseValue(t, i + 1)
         IN  IF j = 0 \/ j > Len(t) THEN 0
             ELSE IF t[j] = "," THEN ParseMembers(t, j + 1)
             ELSE IF t[j] = "}" THEN j + 1
             ELSE 0

IsWhitespace(tok) == tok = "nl"
NotWhitespace(tok) == ~IsWhitespace(tok)

\* the return None of robust_extract_json, and a parsed value
NoPayload == [ok |-> FALSE, value |-> <<>>]
Parsed(u) == [ok |-> TRUE, value |-> u]

\* json.loads: the value when the whole text is one JSON value, NoPayload for
\* JSONDecodeError
json_loads(t) ==
    LET u == SelectSeq(t, NotWhitespace)
    IN  IF u # <<>> /\ ParseValue(u, 1) = Len(u) + 1 THEN Parsed(u) ELSE NoPayload

\* re.search(r"```(?:json)?\s*([\s\S]+?)\s*```", t): the first fence, an
\* optional json tag, then the shortest non-empty text up to the next fence
CodeBlockMatch(t) ==
    LET i == IndexOfFirst(t, "f", 1)
        tagged == i # 0 /\ i + 1 <= Len(t) /\ t[i + 1] = "json"
        j1 == IF tagged THEN IndexOfFirst(t, "f", i + 3) ELSE 0
        j0 == IF i = 0 THEN 0 ELSE IndexOfFirst(t, "f", i + 2)
    IN  IF j1 # 0 THEN [found |-> TRUE, group |-> Strip(SubSeq(t, i + 2, j1 - 1))]
        ELSE IF j0 # 0 THEN [found |-> TRUE, group |-> Strip(SubSeq(t, i + 1, j0 - 1))]
        ELSE [found |-> FALSE, group |-> <<>>]

\* find(open) ... rfind(close), inclusive, when the close comes after the open
SpanCandidate(t, open, close) ==
    LET start == IndexOfFirst(t, open, 1)
        end == IndexOfLast(t, close)
    IN  IF start # 0 /\ end # 0 /\ end > start
        THEN [found |-> TRUE, group |-> SubSeq(t, start, end)]
        ELSE [found |-> FALSE, group |-> <<>>]

\* one strategy: json.loads of the candidate if there is one
TryCandidate(c) == IF c.found THEN json_loads(c.group) ELSE NoPayload

\* return json.loads(...): the Python value of the JSON text null is None
AsReturned(r) == IF r.ok /\ r.value = <<"null">> THEN NoPayload ELSE r

\* the two strategies of andre2.py in the other order
robust_extract_json_span_first(text) ==
    LET cleaned == cleaned_text(text)
        fenced == TryCandidate(CodeBlockMatch(cleaned))
        span == TryCandidate(SpanCandidate(cleaned, "[", "]"))
    IN  IF span.ok THEN AsReturned(span)
        ELSE IF fenced.ok THEN AsReturned(fenced)
        ELSE NoPayload

\* src/andre2.py lines 11-41
robust_extract_json_andre2(text) ==
    LET cleaned == cleaned_text(text)
        fenced == TryCandidate(CodeBlockMatch(cleaned))
        span == TryCandidate(SpanCandidate(cleaned, "[", "]"))
    IN  IF fenced.ok THEN AsReturned(fenced)
        ELSE IF span.ok THEN AsReturned(span)
        ELSE NoPayload

\* andre1.py giving up at the first candidate that does not parse
robust_extract_json_no_fallthrough(text) ==
    LET whole == json_loads(Strip(text))
        block == CodeBlockMatch(text)
        fenced == TryCandidate(block)
        span == TryCandidate(SpanCandidate(text, "{", "}"))
    IN  IF whole.ok THEN AsReturned(whole)
        ELSE IF block.found THEN AsReturned(fenced)
        ELSE IF span.ok THEN AsReturned(span)
        ELSE NoPayload

\* src/andre1.py lines 34-58
robust_extract_json_andre1(text) ==
    LET whole == json_loads(Strip(text))
        fenced == TryCandidate(CodeBlockMatch(text))
        span == TryCandidate(SpanCandidate(text, "{", "}"))
    IN  IF whole.ok THEN AsReturned(whole)
        ELSE IF fenced.ok THEN AsReturned(fenced)
        ELSE IF span.ok THEN AsReturned(span)
        ELSE NoPayload

\* src/andre.py lines 11-28 (the same function is in andre3.py and
\* updating_excel.py)
robust_extract_json_andre(text) ==
    LET fenced == TryCandidate(CodeBlockMatch(text))
        span == TryCandidate(SpanCandidate(text, "{", "}"))
    IN  IF fenced.ok THEN AsReturned(fenced)
        ELSE IF span.ok THEN AsReturned(span)
        ELSE NoPayload

(***************************************************************************)
(* The replies robust_extract_json is given: up to MaxFragments fragments, *)
(* one after the other.                                                    *)
(***************************************************************************)
MaxFragments == 3

\* a word of commentary, a newline, a line-leading <think>, a lone fence
Commentary == <<"w">>
Newline == <<"nl">>
ThinkMarker == <<"think">>
Fence == <<"f">>
\* ```json\n[{"k": 1}]\n```, ```1``` and a fenced block that is not JSON
FencedArray == <<"f", "json", "nl", "[", "{", "k", "n", "}", "]", "nl", "f">>
FencedScalar == <<"f", "n", "f">>
FencedBroken == <<"f", "json", "[", "n", "f">>
\* [{}], [{},{}] and {"k": [1]} written bare, and single brackets
ArrayOfOne == <<"[", "{", "}", "]">>
ArrayOfTwo == <<"[", "{", "}", ",", "{", "}", "]">>
ObjectWithArray == <<"{", "k", "[", "n", "]", "}">>
OpenBracket == <<"[">>
CloseBracket == <<"]">>
\* the JSON text null
Null == <<"null">>

Fragments ==
    {Commentary, Newline, ThinkMarker, Fence, FencedArray, FencedScalar,
     FencedBroken, ArrayOfOne, ArrayOfTwo, ObjectWithArray, OpenBracket,
     CloseBracket, Null}

RECURSIVE Concat(_)
Concat(ps) == IF ps = <<>> THEN <<>> ELSE Head(ps) \o Concat(Tail(ps))

\* the loop does not run while a reply is being read
LoopIdle ==
    /\ pc = "idle"
    /\ max_rows = 0
    /\ aggregated_results = <<>>
    /\ offset = 0
    /\ remaining_rows = 0
    /\ result = JsonNone
    /\ idx = 1
    /\ returned = <<>>
    /\ calls = <<>>
    /\ before = <<>>
    /\ firsts = <<>>
    /\ sleeps = 0

InitExtract ==
    /\ LoopIdle
    /\ parts \in UNION {[1..n -> Fragments] : n \in 0..MaxFragments}
    /\ response_text = Concat(parts)
    /\ extracted = NotExtracted

\* src/andre2.py lines 11-41
ExtractAndre2 ==
    /\ extracted.by = "none"
    /\ extracted' = [by |-> "andre2", searched |-> cleaned_text(response_text),
                     res |-> robust_extract_json_andre2(response_text)]
    /\ UNCHANGED <<loopvars, response_text, parts>>

\* src/andre1.py lines 34-58
ExtractAndre1 ==
    /\ extracted.by = "none"
    /\ extracted' = [by |-> "andre1", searched |-> response_text,
                     res |-> robust_extract_json_andre1(response_text)]
    /\ UNCHANGED <<loopvars, response_text, parts>>

\* src/andre.py lines 11-28
ExtractAndre ==
    /\ extracted.by = "none"
    /\ extracted' = [by |-> "andre", searched |-> response_text,
                     res |-> robust_extract_json_andre(response_text)]
    /\ UNCHANGED <<loopvars, response_text, parts>>

\* src/andre2.py lines 136-141: iter_lines gives the lines of the body
\* without their line ends, and the lines that are not empty are put
\* together with nothing in between
raw_reply(body) == SelectSeq(body, NotWhitespace)

\* src/andre2.py lines 135-150: search_pipeline from the streaming of the
\* body to its return
StreamAndExtract ==
    /\ extracted.by = "none"
    /\ extracted' = [by |-> "search_pipeline",
                     searched |-> cleaned_text(raw_reply(response_text)),
                     res |-> robust_extract_json_andre2(raw_reply(response_text))]
    /\ UNCHANGED <<loopvars, response_text, parts>>

NextExtract == ExtractAndre2 \/ ExtractAndre1 \/ ExtractAndre \/ StreamAndExtract

SpecExtract == InitExtract /\ [][NextExtract]_vars

(***************************************************************************)
(* History helpers.                                                        *)
(***************************************************************************)
NoCalls == calls = <<>>
LastCall == calls[Len(calls)]

\* raw candidates received in the first n calls
RECURSIVE SumGot(_, _)
SumGot(log, n) == IF n = 0 THEN 0 ELSE SumGot(log, n - 1) + log[n].got

NoDupKeys(rows) ==
    \A i, j \in 1..Len(rows) : i # j => KeyOf(rows[i]) # KeyOf(rows[j])

\* the for loop of the current cycle has not yet reached the end of the list
ForLoopRunning == pc = "merge" /\ idx <= ListLen(result)

(***************************************************************************)
(* Claims.                                                                 *)
(***************************************************************************)

\* C1: no two rows of the accumulated list share the identity key
\* (Indikation, Wirkstoff, Brandname), after every pass of the for loop and in
\* the list handed back.
C1_UniqueKeys == NoDupKeys(aggregated_results) /\ NoDupKeys(returned)

\* a finished run that dropped a duplicate inside its first batch and one
\* across batches
C1_Witness ==
    /\ pc = "done"
    /\ Len(calls) >= 2
    /\ calls[1].got > calls[2].have
    /\ LastCall.got > Len(aggregated_results) - LastCall.have
    /\ Len(returned) >= 2

\* C2: the list handed back has at most max_rows rows, whatever the service
\* delivered.
C2_BoundedOutput == pc = "done" => Len(returned) <= max_rows

\* a run whose last batch carried more rows than were asked for
C2_Witness ==
    /\ pc = "done"
    /\ Len(aggregated_results) > max_rows
    /\ Len(returned) = max_rows

\* C3: a run makes at most the configured maximum number of cycles.
C3_CyclesBounded == Len(calls) <= max_cycles

\* C4: no reply makes the run raise to its caller.
C4_NeverRaises == pc # "raised"

\* C5: a cycle in which no JSON could be extracted adds no row, is not
\* retried, and the run ends handing back the rows collected before it.
C5_NoJsonEndsRun ==
    /\ \A i \in 1..(Len(calls) - 1) : calls[i].outcome # "no_json"
    /\ (~NoCalls /\ LastCall.outcome = "no_json") =>
          /\ pc \in {"return", "done"}
          /\ aggregated_results = before
          /\ pc = "return" => ENABLED Return
          /\ pc = "done" => returned = before

\* extraction fails in the second cycle, the rows of the first are handed back
C5_Witness ==
    /\ pc = "done"
    /\ Len(calls) = 2
    /\ LastCall.outcome = "no_json"
    /\ returned # <<>>

\* C6: a request that fails in transport (request error, error while
\* streaming) leaves the list and the offset as they were, raises nothing, and
\* the run hands back the rows collected before it.
C6_TransportFailureEndsRun ==
    (~NoCalls /\ LastCall.outcome \in {"request_error", "stream_error"}) =>
        /\ pc \in {"return", "done"}
        /\ aggregated_results = before
        /\ offset = LastCall.offset
        /\ pc = "done" => returned = before

\* the stream breaks in the second cycle, the rows of the first are handed back
C6_Witness ==
    /\ pc = "done"
    /\ Len(calls) = 2
    /\ LastCall.outcome = "stream_error"
    /\ returned # <<>>

\* C7: a batch with fewer raw candidates than requested is merged whole, and
\* then the run stops without a further request.
C7_ShortBatchMergedThenStop ==
    /\ \A i \in 1..(Len(calls) - 1) : calls[i].got >= calls[i].num_rows
    /\ (~NoCalls /\ LastCall.outcome = "list" /\ LastCall.got < LastCall.num_rows
        /\ ~ForLoopRunning) =>
          /\ idx = ListLen(result) + 1
          /\ pc \in {"merge", "return", "done"}

\* C8: the offsets of successive requests never decrease, and the offset
\* after a cycle that received a non-empty batch is strictly larger.
C8_MonotonicOffset ==
    \A i \in 1..(Len(calls) - 1) :
        /\ calls[i + 1].offset >= calls[i].offset
        /\ calls[i].got > 0 => calls[i + 1].offset > calls[i].offset

\* three requests, each after a non-empty batch
C8_Witness ==
    /\ Len(calls) = 3
    /\ calls[1].got > 0
    /\ calls[2].got > 0
    /\ calls[3].offset > calls[2].offset

\* C9: the offset of every request is the number of raw candidates received
\* in the earlier cycles, duplicates included; with max_rows = 3 and a first
\* batch of three candidates of which one is a duplicate, the second request
\* has offset 3 and asks for 1 row, and the run ends with three rows.
C9_OffsetCountsRawCandidates ==
    /\ \A i \in 1..Len(calls) : calls[i].offset = SumGot(calls, i - 1)
    /\ (max_rows = 3 /\ Len(calls) >= 2 /\ calls[1].got = 3 /\ calls[2].have = 2) =>
          /\ calls[2].offset = 3
          /\ calls[2].num_rows = 1
          /\ Len(calls) >= 3 => calls[3].have = 2
          /\ (pc = "done" /\ Len(aggregated_results) = 3) => Len(returned) = 3

\* the scenario of the claim, run to its end
C9_Witness ==
    /\ pc = "done"
    /\ max_rows = 3
    /\ Len(calls) = 2
    /\ calls[1].got = 3
    /\ calls[2].have = 2
    /\ calls[2].offset = 3
    /\ calls[2].got = 1
    /\ Len(returned) = 3

\* C10 as amended: every request asks for max_rows - len(aggregated_results)
\* rows, which is at least 1; no maximum batch size limits it.
C10_BatchSizeIsRemaining ==
    /\ \A i \in 1..Len(calls) :
          /\ calls[i].num_rows = max_rows - calls[i].have
          /\ calls[i].num_rows >= 1
    /\ pc = "request" =>
          /\ remaining_rows = max_rows - Len(aggregated_results)
          /\ remaining_rows >= 1

\* a second request that asks for the rows still missing
C10_Witness ==
    /\ Len(calls) = 2
    /\ calls[1].num_rows = 3
    /\ calls[2].num_rows = 1

\* C10 as stated: every request asks for
\* min(configured_max_batch, max_rows - len(aggregated_results)) rows.
C10_BatchSizeIsCappedMin ==
    \A i \in 1..Len(calls) :
        calls[i].num_rows = Min(configured_max_batch, max_rows - calls[i].have)

\* C11: no request is made while the list already has max_rows rows; a run
\* with max_rows = 0 makes no request and hands back the empty list.
C11_NoRequestAtTarget ==
    /\ \A i \in 1..Len(calls) : calls[i].have < max_rows
    /\ pc = "request" => Len(aggregated_results) < max_rows
    /\ max_rows = 0 => (NoCalls /\ aggregated_results = <<>> /\ returned = <<>>)

\* a full batch completes the target: the run ends after its only request
C11_Witness ==
    /\ pc = "done"
    /\ max_rows = 2
    /\ Len(calls) = 1
    /\ LastCall.got = LastCall.num_rows
    /\ Len(returned) = 2

\* C12: the list handed back is the first min(max_rows, n) of the objects
\* received, each key at its first arrival and in arrival order, n being the
\* number of distinct keys received.
C12_FirstOccurrencesInOrder ==
    pc = "done" => returned = SubSeq(firsts, 1, Min(max_rows, Len(firsts)))

\* two cycles, duplicates dropped, and more distinct keys than max_rows
C12_Witness ==
    /\ pc = "done"
    /\ Len(calls) = 2
    /\ Len(firsts) > max_rows
    /\ SumGot(calls, 2) > Len(firsts)
    /\ Len(returned) = 2

\* C13: merging is idempotent: merging a row that the list already holds, or
\* the same object twice in a row, leaves the list as the first merge left it.
C13_MergeIdempotent ==
    /\ \A i \in 1..Len(aggregated_results) :
          MergeEntry(aggregated_results, aggregated_results[i]) = aggregated_results
    /\ \A e \in Objects :
          MergeEntry(MergeEntry(aggregated_results, e), e)
              = MergeEntry(aggregated_results, e)

\* two entries of the first batch have been read and only one row was appended
C13_Witness ==
    /\ pc = "merge"
    /\ before = <<>>
    /\ idx = 3
    /\ Len(aggregated_results) = 1

\* the identity key after validation as the design describes it: a key column
\* that the object omits counts as the empty string
ValidatedKey(entry) ==
    << IF entry.Indikation = Absent THEN "" ELSE entry.Indikation,
       IF entry.Wirkstoff = Absent THEN "" ELSE entry.Wirkstoff,
       IF entry.Brandname = Absent THEN "" ELSE entry.Brandname >>

\* C14: a candidate is dropped exactly when its validated key equals, letter
\* for letter, the validated key of a row already collected; in particular an
\* object that omits a key column duplicates one that has it as "".
C14_DroppedIffValidatedKeyEqual ==
    \A e \in Objects :
        (MergeEntry(aggregated_results, e) = aggregated_results)
            <=> \E i \in 1..Len(aggregated_results) :
                    ValidatedKey(aggregated_results[i]) = ValidatedKey(e)

\* cycles in which the request failed in transport or no JSON was extracted
FailedOutcomes == {"request_error", "stream_error", "no_json"}
FailedCycles(log) == Cardinality({i \in 1..Len(log) : log[i].outcome \in FailedOutcomes})

\* C15 as amended: the run hands back the list alone; at most one cycle of a
\* run fails, and a failed cycle is the last cycle of its run.
C15_OneFailedCycleEndsRun ==
    /\ FailedCycles(calls) <= 1
    /\ \A i \in 1..(Len(calls) - 1) : calls[i].outcome \notin FailedOutcomes
    /\ pc = "done" => returned = Truncate(aggregated_results, max_rows)

\* the second request fails and the run ends with the rows of the first
C15_Witness ==
    /\ pc = "done"
    /\ Len(calls) = 2
    /\ FailedCycles(calls) = 1
    /\ LastCall.outcome = "request_error"

\* C15 as stated: the run hands back, with the list, the number of its failed
\* cycles.
C15_ReturnsFailedCount ==
    pc = "done" => FailedCycles(calls) \in FailureCountsReturned

\* the columns of the model's objects that the schema declares
SchemaFields == {"Indikation", "Wirkstoff", "Brandname", "info"}

\* C16: every row of the list carries every declared column; a column that
\* the source object omits is there with the empty string.
C16_RowsCarryEveryField ==
    \A i \in 1..Len(aggregated_results) :
        \A f \in SchemaFields : aggregated_results[i][f] # Absent

\* C17: a malformed element costs only itself: once the for loop is over,
\* every element of the batch has been visited, so every well-formed sibling
\* was merged.
C17_SiblingsStillMerged ==
    (~NoCalls /\ LastCall.outcome = "list" /\ ~ForLoopRunning) =>
        /\ pc # "raised"
        /\ idx = ListLen(result) + 1

\* C18 as amended: a reply whose JSON value is not a list, a single object
\* included, ends the run unmerged: list and offset stay as they were and
\* the rows collected before are handed back.
C18_NonListEndsRunUnmerged ==
    (~NoCalls /\ LastCall.outcome = "not_list") =>
        /\ pc \in {"return", "done"}
        /\ aggregated_results = before
        /\ offset = LastCall.offset
        /\ pc = "done" => returned = before

\* the second reply is a single object: the rows of the first are handed back
C18_Witness ==
    /\ pc = "done"
    /\ Len(calls) = 2
    /\ LastCall.outcome = "not_list"
    /\ result.tag = "dict"
    /\ returned # <<>>

\* C18 as stated: a single object is merged as a batch of one, so a run that
\* ends on such a reply has at least that row.
C18_SingleObjectMerged ==
    (pc = "done" /\ ~NoCalls /\ LastCall.outcome = "not_list" /\ result.tag = "dict") =>
        aggregated_results # <<>>

\* the three robust_extract_json functions
Extractors == {"andre2", "andre1", "andre"}

\* the fenced blocks of the model that hold valid JSON, and the value each holds
ValidFenced == {FencedArray, FencedScalar}
FencedValue(block) ==
    IF block = FencedArray THEN <<"[", "{", "k", "n", "}", "]">> ELSE <<"n">>
\* fragments that hold no fence and no reasoning marker
Unfenced ==
    {Commentary, Newline, ArrayOfOne, ArrayOfTwo, ObjectWithArray, OpenBracket,
     CloseBracket}

\* C19: when the first fence of the text opens a fenced block of valid JSON
\* (tagged json or not), whatever commentary or bare brackets stand before
\* and after it, each robust_extract_json returns the parsed content of that
\* block: no later strategy replaces it.
C19_FencedBlockRecovered ==
    \A p \in 1..Len(parts) :
        (/\ extracted.by \in Extractors
         /\ parts[p] \in ValidFenced
         /\ \A q \in 1..(p - 1) : parts[q] \in Unfenced)
        => extracted.res = Parsed(FencedValue(parts[p]))

\* commentary, ```json [{"k": 1}] ```, commentary, read by andre2.py
C19_Witness ==
    /\ parts = <<Commentary, FencedArray, Commentary>>
    /\ extracted.by = "andre2"
    /\ extracted.res = Parsed(<<"[", "{", "k", "n", "}", "]">>)

\* the value of the whole text, when the whole text is one JSON value
WholeText == json_loads(Strip(response_text))

\* C20: whenever the whole text is valid JSON, the robust_extract_json of
\* andre2.py and of andre.py returns exactly the value of the whole text.
C20_WholeTextWins ==
    (extracted.by \in {"andre2", "andre"} /\ WholeText.ok)
        => extracted.res = WholeText

\* the strategies of the function that ran, in the order the function tries
\* them, each with what its json.loads gave
Strategies ==
    LET cleaned == cleaned_text(response_text)
    IN  IF extracted.by = "andre2"
        THEN <<TryCandidate(CodeBlockMatch(cleaned)),
               TryCandidate(SpanCandidate(cleaned, "[", "]"))>>
        ELSE IF extracted.by = "andre1"
        THEN <<json_loads(Strip(response_text)),
               TryCandidate(CodeBlockMatch(response_text)),
               TryCandidate(SpanCandidate(response_text, "{", "}"))>>
        ELSE <<TryCandidate(CodeBlockMatch(response_text)),
               TryCandidate(SpanCandidate(response_text, "{", "}"))>>
AllStrategiesFail == \A i \in 1..Len(Strategies) : ~Strategies[i].ok
FirstSuccess ==
    Strategies[CHOOSE i \in 1..Len(Strategies) :
                  Strategies[i].ok /\ \A j \in 1..(i - 1) : ~Strategies[j].ok]

\* C21 (as amended): a strategy that does not parse is passed over and the
\* next one is tried; the function returns the value of the first strategy
\* that parses, and it returns None exactly when every strategy fails or the
\* first one that parses holds the JSON text null.
C21_NoneIffAllFailOrNull ==
    extracted.by \in Extractors =>
        /\ extracted.res = NoPayload <=>
              (AllStrategiesFail \/ FirstSuccess.value = <<"null">>)
        /\ (~AllStrategiesFail /\ FirstSuccess.value # <<"null">>)
              => extracted.res = FirstSuccess

\* a fenced block that is not JSON after an object: andre1.py passes over the
\* whole text and the block and returns the object of the brace span
C21_Witness ==
    /\ parts = <<ObjectWithArray, FencedBroken>>
    /\ extracted.by = "andre1"
    /\ CodeBlockMatch(response_text).found
    /\ ~TryCandidate(CodeBlockMatch(response_text)).ok
    /\ extracted.res = Parsed(ObjectWithArray)

\* C21 as stated: None is returned exactly when every strategy fails to parse.
C21_NoneIffAllFail ==
    extracted.by \in Extractors => (extracted.res = NoPayload <=> AllStrategiesFail)

\* the tokens of a text that are not line breaks and do not stand on a line
\* whose first token is the marker, in their order
RECURSIVE KeptFrom(_, _, _)
KeptFrom(t, i, onMarkerLine) ==
    IF i > Len(t) THEN <<>>
    ELSE IF t[i] = "nl"
    THEN KeptFrom(t, i + 1, i + 1 <= Len(t) /\ t[i + 1] = "think")
    ELSE (IF onMarkerLine THEN <<>> ELSE <<t[i]>>) \o KeptFrom(t, i + 1, onMarkerLine)
KeptTokens(t) == KeptFrom(t, 1, t # <<>> /\ t[1] = "think")

HasMarker(t) == \E i \in 1..Len(t) : t[i] = "think"
NoLineBeginsWithMarker(t) ==
    \A i \in 1..Len(t) : t[i] = "think" => (i > 1 /\ t[i - 1] # "nl")
RemovesMarkerLinesOnly ==
    /\ SelectSeq(extracted.searched, NotWhitespace) = KeptTokens(response_text)
    /\ NoLineBeginsWithMarker(extracted.searched)
    /\ response_text = <<>> => extracted.searched = <<>>

\* C22 (as amended): the normalization of andre2.py removes the lines that
\* begin with the marker and nothing else, keeps the rest in order, and gives
\* the empty text for the empty text; it does not trim the result: a text
\* without a marker comes back as it is, leading line breaks included, less
\* one final line break.
C22_MarkerLinesRemovedUntrimmed ==
    extracted.by = "andre2" =>
        /\ RemovesMarkerLinesOnly
        /\ ~HasMarker(response_text) =>
              extracted.searched =
                  IF response_text # <<>> /\ response_text[Len(response_text)] = "nl"
                  THEN SubSeq(response_text, 1, Len(response_text) - 1)
                  ELSE response_text

\* a marker line, then an array on the next line: only the array is searched
C22_Witness ==
    /\ parts = <<ThinkMarker, Newline, ArrayOfOne>>
    /\ extracted.by = "andre2"
    /\ extracted.searched = ArrayOfOne
    /\ extracted.res = Parsed(ArrayOfOne)

\* C22 as stated: marker lines removed, the rest kept, and the result trimmed
\* of leading and trailing whitespace.
C22_NormalizedAndTrimmed ==
    extracted.by = "andre2" =>
        /\ RemovesMarkerLinesOnly
        /\ extracted.searched = Strip(extracted.searched)

\* C23: whenever a request is about to be issued after an earlier one, the
\* earlier reply has been merged to its end and one time.sleep(1) has
\* returned for every earlier request: no request starts before the delay
\* that follows the previous cycle is over, and none starts while another
\* is unanswered.
C23_DelayBetweenRequests ==
    /\ sleeps <= Len(calls)
    /\ pc \in {"while", "request"} => sleeps = Len(calls)
    /\ (pc = "request" /\ ~NoCalls) =>
          /\ LastCall.outcome = "list"
          /\ idx > ListLen(result)
          /\ offset = LastCall.offset + LastCall.got

\* a second request is about to start; one delay has been completed
C23_Witness ==
    /\ pc = "request"
    /\ Len(calls) = 1
    /\ sleeps = 1

IsPrefix(a, b) == Len(a) <= Len(b) /\ SubSeq(b, 1, Len(a)) = a

\* C24: no step of a run removes, reorders or changes a row that is already
\* in aggregated_results: the list before a step is a prefix of the list
\* after it, a cycle that fails leaves the list as it was, and the returned
\* list is a prefix of the final list.
C24_AppendOnly ==
    [][/\ IsPrefix(aggregated_results, aggregated_results')
       /\ IsPrefix(before', aggregated_results')
       /\ (~NoCalls' /\ LastCall'.outcome # "list") => aggregated_results' = before'
       /\ pc' = "done" => IsPrefix(returned', aggregated_results')]_vars

\* two cycles have each added a row to the rows that were there
C24_Witness ==
    /\ pc = "done"
    /\ Len(calls) = 3
    /\ calls[2].have = 1
    /\ calls[3].have = 2
    /\ Len(aggregated_results) = 3
    /\ returned = aggregated_results

\* a reply of lines that are either the marker alone or one JSON array alone,
\* with the array in fragment p and at least one marker line
Arrays == {ArrayOfOne, ArrayOfTwo}
MarkerLinesAndArray(p) ==
    /\ parts[p] \in Arrays
    /\ \A q \in 1..Len(parts) :
          /\ q # p => parts[q] \in {ThinkMarker, Newline}
          /\ (q < Len(parts) /\ parts[q] # Newline) => parts[q + 1] = Newline
    /\ \E q \in 1..Len(parts) : parts[q] = ThinkMarker

\* C25: when the body of a reply has lines that begin with <think> and
\* another line that is a valid JSON array, search_pipeline returns that
\* array.
C25_PayloadOnOtherLineSurvives ==
    \A p \in 1..Len(parts) :
        (extracted.by = "search_pipeline" /\ MarkerLinesAndArray(p))
            => extracted.res = Parsed(parts[p])

\* the last cycle failed, or brought fewer raw candidates than were asked for
LastCycleFailedOrShort ==
    /\ ~NoCalls
    /\ \/ LastCall.outcome \in FailedOutcomes \cup {"not_list"}
       \/ LastCall.outcome = "list" /\ LastCall.got < LastCall.num_rows

\* C26: a run that leaves the loop with rows still missing, and returns fewer
\* than max_rows rows, had a failed cycle or a short batch as its last cycle.
C26_FewerOnlyAfterFailedOrShort ==
    /\ (pc \in {"return", "done"} /\ Len(aggregated_results) < max_rows)
          => LastCycleFailedOrShort
    /\ (pc = "done" /\ Len(returned) < max_rows) => LastCycleFailedOrShort

\* a full batch, then a short one, and the run returns fewer rows than asked
C26_Witness ==
    /\ pc = "done"
    /\ Len(returned) < max_rows
    /\ Len(calls) = 2
    /\ calls[1].got = calls[1].num_rows
    /\ LastCall.outcome = "list"
    /\ LastCall.got < LastCall.num_rows

\* C27 (as amended): the returned list has at most max_rows rows, and so has
\* the accumulated list whenever a request is made; the accumulated list is
\* longer than max_rows only after a batch with more candidates than were
\* asked for, and no request follows such a batch.
C27_ExcessOnlyFromOverDelivery ==
    /\ Len(before) <= max_rows
    /\ Len(aggregated_results) > max_rows =>
          /\ ~NoCalls
          /\ LastCall.outcome = "list"
          /\ LastCall.got > LastCall.num_rows
          /\ pc # "request"
    /\ pc = "done" => Len(returned) <= max_rows

\* in the middle of the for loop the list is already longer than max_rows
C27_Witness ==
    /\ pc = "merge"
    /\ idx <= ListLen(result)
    /\ Len(aggregated_results) > max_rows

\* C27 as stated: the accumulated list never has more than max_rows rows.
C27_BoundedInEveryState == Len(aggregated_results) <= max_rows
====
